---- MODULE Spec2Model ----
(***************************************************************************)
(* Reminder App (Reminder_App.py, Reminder_App_MultiScreen_Support.py):    *)
(* the reminder store, the monitor thread that polls it, the alert windows *)
(* with their snooze/dismiss buttons, the edit dialog and the JSON         *)
(* document the store is saved to.                                         *)
(*                                                                         *)
(* Time is the wall clock in milliseconds since local midnight of day 0.   *)
(* A "YYYY-MM-DD" string is modelled by the ordinal of its day, an "HH:MM" *)
(* string by the sequence of its five characters.                          *)
(***************************************************************************)
EXTENDS Integers, Sequences, FiniteSets, TLC

VARIABLES
    now,                \* time.time()/datetime.now(), in milliseconds
    running,            \* self.running
    root,               \* the main window exists: create_gui has returned
    monitor,            \* the monitor thread: "alive" or "exited"
    sleepLeft,          \* milliseconds left of the monitor's time.sleep(30)
    reminders,          \* self.reminders
    snoozed_items,      \* self.snoozed_items
    file,               \* DATA_FILE on disk
    alerts,             \* the open alert windows, each with its closure's arguments
    log,                \* history: every alert shown and every start of the program
    msgbox,             \* the text of the modal messagebox open on the UI thread
    dialog,             \* the edit dialog (modal) and the variables of its closures
    pending_voice_note, \* self.pending_voice_note
    reminders_listbox,  \* self.reminders_listbox and the pending root.after refresh
    tick,               \* the monitor thread's place in check_reminders/check_snoozed
    saving              \* the UI thread's place in save() of the edit dialog

vars == <<now, running, root, monitor, sleepLeft, reminders, snoozed_items, file,
          alerts, log, msgbox, dialog, pending_voice_note, reminders_listbox, tick,
          saving>>

----------------------------------------------------------------------------
(* Units of time *)

MsPerSecond == 1000
SecondsPerMinute == 60
MinutesPerHour == 60
HoursPerDay == 24
SleepSeconds == 30
AfterMs == 100          \* root.after(100, self.refresh_reminders_list)

MsPerMinute == MsPerSecond * SecondsPerMinute
MinutesPerDay == MinutesPerHour * HoursPerDay
\* variant of SleepMs: the thread sleeps for two minutes
SleepMs_TwoMinutes == 4 * SleepSeconds * MsPerSecond

SleepMs == SleepSeconds * MsPerSecond

(* Bounds of the model *)

MaxReminders == 2       \* length of self.reminders
MaxSnoozed == 2         \* length of self.snoozed_items
MaxClicks == 1          \* the user's fastest clicks: 1 ms steps of the clock after a
                        \* half minute
HorizonMinutes == 2     \* minutes of wall clock explored half minute by half minute
StartMinute == 1438     \* the clock starts at 23:58 of day 0
MaxStarts == 1          \* times the program is started again

StartNow == StartMinute * MsPerMinute
MaxNow == (StartMinute + HorizonMinutes) * MsPerMinute

\* the user fills in forms and records voice notes during the first
\* milliseconds only: what is created later differs in its id alone
Early == now <= StartNow + MaxClicks

(* What the user can type or pick: the forms of the add tab and of the edit
   dialog as the user fills them in (title, description, date, hour, minute,
   AM/PM, priority) *)

Form(title, desc, date, hma, priority) ==
    [title |-> title, desc |-> desc, date |-> date, hma |-> hma, priority |-> priority]

Forms ==
    { Form(<<"a">>, <<"d">>, 0, <<11, 59, "PM">>, "normal"),      \* 23:59 of day 0
      Form(<<" ", "b">>, <<"d", " ">>, 1, <<12, 0, "AM">>, "urgent"),  \* 00:00 of day 1
      Form(<<"a">>, << >>, 0, <<12, 0, "AM">>, "urgent"),          \* 00:00 of day 0: past
      Form(<<" ">>, <<"d">>, 1, <<12, 0, "AM">>, "normal") }       \* a blank title

\* what the user can leave in the add tab: the forms above, or no title at all
AddForms == Forms \cup { Form(<< >>, <<"d">>, 1, <<12, 0, "AM">>, "normal") }

SnoozeMinutes == { 5, 10, 15, 30 }

None == <<>>            \* Python's None

----------------------------------------------------------------------------
(* Strings *)

Digits == << "0", "1", "2", "3", "4", "5", "6", "7", "8", "9" >>

\* f"{n:02d}" for 0 <= n
RECURSIVE Decimal(_)
Decimal(n) == IF n < 10 THEN << Digits[n + 1] >>
              ELSE Decimal(n \div 10) \o << Digits[(n % 10) + 1] >>

Fmt02(n) == IF n < 10 THEN << "0" >> \o Decimal(n) ELSE Decimal(n)

\* str.strip() on a sequence of characters
RECURSIVE LStrip(_)
LStrip(s) == IF s # << >> /\ Head(s) = " " THEN LStrip(Tail(s)) ELSE s

RECURSIVE RStrip(_)
RStrip(s) == IF s # << >> /\ s[Len(s)] = " " THEN RStrip(SubSeq(s, 1, Len(s) - 1)) ELSE s

\* variant of Strip: the text is taken as typed
Strip_AsTyped(s) == s

Strip(s) == RStrip(LStrip(s))

\* Python truthiness of a string-or-None
Truthy(x) == x # None /\ x # << >>

----------------------------------------------------------------------------
(* The clock as strftime shows it *)

MinuteOf(t) == t \div MsPerMinute

\* strftime("%Y-%m-%d")
StrfDate(t) == MinuteOf(t) \div MinutesPerDay

\* strftime("%H:%M")
StrfTime(t) ==
    LET m == MinuteOf(t) % MinutesPerDay
    IN  Fmt02(m \div MinutesPerHour) \o << ":" >> \o Fmt02(m % MinutesPerHour)

\* strftime("%Y-%m-%d %H:%M")
StrfDateTime(t) == << StrfDate(t), StrfTime(t) >>

\* the minutes since midnight an "HH:MM" string stands for
DigitValue(c) == CHOOSE d \in 0..9 : Digits[d + 1] = c

ParseTime(s) ==
    (10 * DigitValue(s[1]) + DigitValue(s[2])) * MinutesPerHour
    + 10 * DigitValue(s[4]) + DigitValue(s[5])

\* the minute of the clock a date and an "HH:MM" string stand for
StampMinute(date, hhmm) == date * MinutesPerDay + ParseTime(hhmm)

\* variant of TimeMillis: ids with the resolution of a second
TimeMillis_Seconds == (now \div MsPerSecond) * MsPerSecond

\* int(time.time() * 1000)
TimeMillis == now

\* int(time.time())
TimeSeconds == now \div MsPerSecond

\* variant of get_24hour_time: every PM hour is moved on by twelve, noon too
get_24hour_time_NoonMoved(hour, minute, ampm) ==
    LET h == IF ampm = "AM" /\ hour = 12 THEN 0
             ELSE IF ampm = "PM" THEN hour + 12
             ELSE hour
    IN  Fmt02(h) \o << ":" >> \o Fmt02(minute)

get_24hour_time(hour, minute, ampm) ==
    LET h == IF ampm = "AM" /\ hour = 12 THEN 0
             ELSE IF ampm = "PM" /\ hour # 12 THEN hour + 12
             ELSE hour
    IN  Fmt02(h) \o << ":" >> \o Fmt02(minute)

\* show_edit_dialog, "Parse existing time": what the hour spinbox, the minute
\* spinbox and the AM/PM buttons of the dialog start with for a stored "HH:MM"
TimeParts(hhmm) ==
    LET h24 == 10 * DigitValue(hhmm[1]) + DigitValue(hhmm[2])
        minute == 10 * DigitValue(hhmm[4]) + DigitValue(hhmm[5])
        ampm == IF h24 < 12 THEN "AM" ELSE "PM"
        hour == IF h24 <= 12 THEN h24 ELSE h24 - 12
    IN  << IF hour = 0 THEN 12 ELSE hour, minute, ampm >>

----------------------------------------------------------------------------
(* Python dicts: a dict is a function of its keys *)

Get(d, k, default) == IF k \in DOMAIN d THEN d[k] ELSE default

SetKey(d, k, v) == [x \in (DOMAIN d) \cup {k} |-> IF x = k THEN v ELSE d[x]]

SetAt(seq, i, d) == [seq EXCEPT ![i] = d]

\* variant of RemoveAt: the window stays (no alert.destroy())
RemoveAt_Kept(seq, i) == seq

RemoveAt(seq, i) == SubSeq(seq, 1, i - 1) \o SubSeq(seq, i + 1, Len(seq))

\* variant of WithoutId: the comparison is inverted, the entries with the id
\* are the ones kept
WithoutId_Inverted(seq, id) == SelectSeq(seq, LAMBDA r : r.id = id)

\* [r for r in seq if r['id'] != id]
RECURSIVE WithoutId(_, _)
WithoutId(seq, id) ==
    IF seq = << >> THEN << >>
    ELSE IF Head(seq).id # id THEN << Head(seq) >> \o WithoutId(Tail(seq), id)
    ELSE WithoutId(Tail(seq), id)

\* next((i for i, r in enumerate(seq) if r['id'] == id), None); 0 is None
RECURSIVE FirstWithId(_, _, _)
FirstWithId(seq, id, i) ==
    IF i > Len(seq) THEN 0
    ELSE IF seq[i].id = id THEN i
    ELSE FirstWithId(seq, id, i + 1)

----------------------------------------------------------------------------
(* json.dump and json.load of the document {'reminders': [...], 'alarms': []} *)

\* variant of JsonOf: None is written as the string "None"
JsonOf_NoneAsString(k, v) ==
    IF k = "id" THEN [t |-> "number", v |-> v]
    ELSE IF k = "active" THEN (IF v THEN [t |-> "true"] ELSE [t |-> "false"])
    ELSE IF k = "voice_note" /\ v = None THEN [t |-> "string", v |-> << "None" >>]
    ELSE [t |-> "string", v |-> v]

\* the JSON text of one Python value, by the type the key holds
JsonOf(k, v) ==
    IF k = "id" THEN [t |-> "number", v |-> v]
    ELSE IF k = "active" THEN (IF v THEN [t |-> "true"] ELSE [t |-> "false"])
    ELSE IF k = "voice_note" /\ v = None THEN [t |-> "null"]
    ELSE [t |-> "string", v |-> v]

PyOf(j) ==
    IF j.t = "true" THEN TRUE
    ELSE IF j.t = "false" THEN FALSE
    ELSE IF j.t = "null" THEN None
    ELSE j.v

JsonDumpList(rs) == [i \in 1..Len(rs) |-> [k \in DOMAIN rs[i] |-> JsonOf(k, rs[i][k])]]

JsonLoadList(js) == [i \in 1..Len(js) |-> [k \in DOMAIN js[i] |-> PyOf(js[i][k])]]

\* The data file: whether it exists; what json.load makes of its text ("object":
\* a JSON object, "other": another JSON value, "invalid": json.load raises); and,
\* of an object, the values of "reminders" and "alarms"
NoFile == [exists |-> FALSE, json |-> "invalid", reminders |-> << >>, alarms |-> << >>]

\* a file json.load raises on: the empty file open(DATA_FILE, 'w') leaves
\* before anything is written, or text that is no single JSON document
Unparsable == [exists |-> TRUE, json |-> "invalid", reminders |-> << >>, alarms |-> << >>]

\* what save_data leaves on disk
save_data(rs) ==
    [exists |-> TRUE, json |-> "object", reminders |-> JsonDumpList(rs), alarms |-> << >>]

\* self.reminders after load_data on a store that was just constructed: what
\* data.get('reminders', []) returns, or the empty list of __init__ if there is
\* no file or the try block raises (json.load, or .get of a value that is no
\* dict)
load_data(f) ==
    IF f.exists /\ f.json = "object" THEN JsonLoadList(f.reminders) ELSE << >>

----------------------------------------------------------------------------
(* The listbox *)

\* variant of refresh_reminders_list: every line is inserted at the top
RECURSIVE refresh_reminders_list_NewestFirst(_)
refresh_reminders_list_NewestFirst(rs) ==
    IF rs = << >> THEN << >>
    ELSE IF Head(rs).active
         THEN refresh_reminders_list_NewestFirst(Tail(rs)) \o << Head(rs).id >>
    ELSE refresh_reminders_list_NewestFirst(Tail(rs))

\* the ids refresh_reminders_list inserts, in order
RECURSIVE refresh_reminders_list(_)
refresh_reminders_list(rs) ==
    IF rs = << >> THEN << >>
    ELSE IF Head(rs).active THEN << Head(rs).id >> \o refresh_reminders_list(Tail(rs))
    ELSE refresh_reminders_list(Tail(rs))

\* refresh_reminders_list raises KeyError: r['active'] of every entry is read,
\* and r['priority'], r['time'], r['title'], r['date'], r['id'] of the active ones
RefreshRaises(rs) ==
    \E i \in 1..Len(rs) :
        \/ "active" \notin DOMAIN rs[i]
        \/ /\ rs[i].active
           /\ ~({"priority", "time", "title", "date", "id"} \subseteq DOMAIN rs[i])

----------------------------------------------------------------------------
\* the lines a refresh inserts for the store as it is
listbox == refresh_reminders_list(reminders)

\* no root.after timer is pending
NoTimer == 0

\* the widget: the ids on its lines, and the time at which the refresh that
\* check_reminders has scheduled with root.after is due
Listbox(lines, after) == [lines |-> lines, after |-> after]

\* refresh_reminders_list called by a handler of the UI thread
Refreshed(rs) == [reminders_listbox EXCEPT !.lines = refresh_reminders_list(rs)]

\* the main loop at time t: a refresh scheduled with root.after runs when due
MainLoop(t) ==
    IF reminders_listbox.after # NoTimer /\ t >= reminders_listbox.after
    THEN Listbox(refresh_reminders_list(reminders), NoTimer)
    ELSE reminders_listbox

----------------------------------------------------------------------------
(* State after ReminderApp.__init__ on a machine without a data file *)

\* no messagebox is open
NoBox == ""

\* the monitor thread is not inside check_reminders or check_snoozed
NoTick == [at |-> "sleep", i |-> 0, stage |-> "", t |-> 0, detached |-> FALSE,
           list |-> << >>, doc |-> NoFile]

\* the UI thread is not inside save()
NoSave == [busy |-> FALSE, form |-> Form(<< >>, << >>, 0, <<12, 0, "AM">>, "normal"),
           was |-> << 0, << >> >>]

NoDialog == [open |-> FALSE, idx |-> 0, new_voice |-> None, removable |-> FALSE]

Init ==
    /\ now = StartNow
    /\ running = TRUE
    /\ root = TRUE
    /\ monitor = "alive"
    /\ sleepLeft = 0
    /\ reminders = << >>
    /\ snoozed_items = << >>
    /\ file = NoFile
    /\ alerts = << >>
    /\ log = << >>
    /\ msgbox = NoBox
    /\ dialog = NoDialog
    /\ pending_voice_note = None
    /\ reminders_listbox = Listbox(<< >>, NoTimer)
    /\ tick = NoTick
    /\ saving = NoSave

\* the main window takes events: the process runs, no modal window is open
UiIdle == running /\ root /\ msgbox = NoBox /\ ~dialog.open /\ ~saving.busy

\* the edit dialog takes events
DialogIdle == running /\ root /\ msgbox = NoBox /\ dialog.open /\ ~saving.busy

VoicePath(secs) == << "voice_", secs, ".wav" >>

----------------------------------------------------------------------------
(* The UI thread: handlers of the main window *)

\* the dict add_reminder_gui builds
NewReminder(title, desc, date, hma, priority) ==
    LET base == [ id |-> TimeMillis,
                  title |-> title,
                  description |-> desc,
                  date |-> date,
                  time |-> get_24hour_time(hma[1], hma[2], hma[3]),
                  priority |-> priority,
                  active |-> TRUE ]
    IN  IF Truthy(pending_voice_note)
        THEN SetKey(base, "voice_note", pending_voice_note)
        ELSE base

\* variant of append: the list holds the newest entry only
append_Replacing(list, x) == << x >>

\* variant of append: the new entry goes to the head of the list
append_AtFront(list, x) == << x >> \o list

\* list.append(x)
append(list, x) == Append(list, x)

\* add_reminder_gui with an empty title after strip(): an error box, nothing else
AddRejected(f) ==
    /\ UiIdle
    /\ Strip(f.title) = << >>
    /\ msgbox' = "Enter a title!"
    /\ UNCHANGED <<root, now, running, monitor, sleepLeft, reminders, snoozed_items, file,
                   alerts, log, dialog, pending_voice_note,
                   reminders_listbox, tick, saving>>

add_reminder_gui(f) ==
    /\ UiIdle
    /\ Strip(f.title) # << >>
    /\ Len(reminders) < MaxReminders
    /\ Early
    /\ reminders' = append(reminders,
                           NewReminder(Strip(f.title), Strip(f.desc), f.date, f.hma,
                                       f.priority))
    /\ pending_voice_note' = None
    /\ file' = save_data(reminders')
    /\ reminders_listbox' = Refreshed(reminders')
    /\ msgbox' = "Reminder added!"
    /\ UNCHANGED <<root, now, running, monitor, sleepLeft, snoozed_items, alerts, log,
                   dialog, tick, saving>>

\* record_voice_note, through "Use This"
record_voice_note ==
    /\ UiIdle
    /\ Early
    /\ pending_voice_note' = VoicePath(TimeSeconds)
    /\ msgbox' = "Voice note will be used for this reminder!"
    /\ UNCHANGED <<root, now, running, monitor, sleepLeft, reminders, snoozed_items, file,
                   alerts, log, dialog, reminders_listbox, tick, saving>>

\* the reminder dict with the id is in self.reminders
InStore(id) == \E n \in 1..Len(reminders) : reminders[n].id = id

PlaceOf(id) == CHOOSE n \in 1..Len(reminders) : reminders[n].id = id

\* The list object the for loop of check_reminders walks. It is self.reminders
\* itself, appends included, until delete_reminder binds self.reminders to a new
\* list; from then on it is the old list (tick.list), whose dicts are those of
\* the store as far as they are still in it.
Iterated ==
    IF tick.detached
    THEN [n \in 1..Len(tick.list) |->
             IF InStore(tick.list[n].id) THEN reminders[PlaceOf(tick.list[n].id)]
             ELSE tick.list[n]]
    ELSE reminders

\* self.reminders = [...] of delete_reminder, as the monitor thread sees it: a
\* loop that has fetched a reminder keeps the list it began with; a loop that
\* has not begun yet will take the new list
Rebound(tk) ==
    IF tk.at = "reminders" /\ (tk.i > 1 \/ tk.stage # "if")
    THEN [tk EXCEPT !.detached = TRUE, !.list = Iterated]
    ELSE tk

\* delete_reminder on the sel-th line of the listbox
delete_reminder(sel) ==
    /\ UiIdle
    /\ sel \in 1..Len(reminders_listbox.lines)
    /\ reminders' = WithoutId(reminders, reminders_listbox.lines[sel])
    /\ file' = save_data(reminders')
    /\ reminders_listbox' = Refreshed(reminders')
    /\ msgbox' = "Deleted!"
    /\ tick' = Rebound(tick)
    /\ UNCHANGED <<root, now, running, monitor, sleepLeft, snoozed_items, alerts, log,
                   dialog, pending_voice_note, saving>>

\* edit_reminder on the sel-th line of the listbox: the dialog opens on the first
\* reminder with the id shown, if there is one
edit_reminder(sel) ==
    /\ UiIdle
    /\ sel \in 1..Len(reminders_listbox.lines)
    /\ LET i == FirstWithId(reminders, reminders_listbox.lines[sel], 1)
       IN  dialog' = IF i = 0 THEN NoDialog
                     ELSE [ open |-> TRUE, idx |-> i, new_voice |-> None,
                            removable |-> Truthy(Get(reminders[i], "voice_note", << >>)) ]
    /\ UNCHANGED <<root, now, running, monitor, sleepLeft, reminders, snoozed_items, file,
                   alerts, log, msgbox, pending_voice_note,
                   reminders_listbox, tick, saving>>

----------------------------------------------------------------------------
(* The UI thread: the closures of show_edit_dialog *)

\* remove_voice: the button exists if the reminder had a voice note when the
\* dialog opened
remove_voice ==
    /\ DialogIdle
    /\ dialog.removable
    /\ reminders' = SetAt(reminders, dialog.idx,
                          SetKey(reminders[dialog.idx], "voice_note", None))
    /\ dialog' = [dialog EXCEPT !.new_voice = None]
    /\ msgbox' = "Voice note will be removed when you save"
    /\ UNCHANGED <<root, now, running, monitor, sleepLeft, snoozed_items, file, alerts, log,
                   pending_voice_note, reminders_listbox, tick, saving>>

\* record_new_voice, through "Use This"
record_new_voice ==
    /\ DialogIdle
    /\ Early
    /\ dialog' = [dialog EXCEPT !.new_voice = VoicePath(TimeSeconds)]
    /\ msgbox' = "New voice note will replace the old one when you save!"
    /\ UNCHANGED <<root, now, running, monitor, sleepLeft, reminders, snoozed_items, file,
                   alerts, log, pending_voice_note, reminders_listbox, tick, saving>>

\* variant of Edited: save builds the reminder anew, as add_reminder_gui does
Edited_Rebuilt(r, f, new_voice) ==
    NewReminder(Strip(f.title), Strip(f.desc), f.date, f.hma, f.priority)

\* variant of Edited: a saved edit schedules the reminder again
Edited_Reactivated(r, f, new_voice) ==
    LET e == [r EXCEPT !.title = Strip(f.title),
                       !.description = Strip(f.desc),
                       !.date = f.date,
                       !.time = get_24hour_time(f.hma[1], f.hma[2], f.hma[3]),
                       !.priority = f.priority,
                       !.active = TRUE]
    IN  IF Truthy(new_voice) THEN SetKey(e, "voice_note", new_voice) ELSE e

\* the reminder as save() leaves it
Edited(r, f, new_voice) ==
    LET e == [r EXCEPT !.title = Strip(f.title),
                       !.description = Strip(f.desc),
                       !.date = f.date,
                       !.time = get_24hour_time(f.hma[1], f.hma[2], f.hma[3]),
                       !.priority = f.priority]
    IN  IF Truthy(new_voice) THEN SetKey(e, "voice_note", new_voice) ELSE e

\* save
edit_save(f) ==
    /\ DialogIdle
    /\ reminders' = SetAt(reminders, dialog.idx,
                          Edited(reminders[dialog.idx], f, dialog.new_voice))
    /\ file' = save_data(reminders')
    /\ reminders_listbox' = Refreshed(reminders')
    /\ msgbox' = "Reminder updated!"
    /\ dialog' = NoDialog
    /\ UNCHANGED <<root, now, running, monitor, sleepLeft, snoozed_items, alerts, log,
                   pending_voice_note, tick, saving>>

\* save, statement by statement: the assignments of title, description and date
EditedToDate(r, f) ==
    [r EXCEPT !.title = Strip(f.title), !.description = Strip(f.desc), !.date = f.date]

\* save has assigned reminder['date'] and is about to read the time widgets
save_begin(f) ==
    /\ DialogIdle
    /\ reminders' = SetAt(reminders, dialog.idx, EditedToDate(reminders[dialog.idx], f))
    /\ saving' = [busy |-> TRUE, form |-> f,
                  was |-> << reminders[dialog.idx].date, reminders[dialog.idx].time >>]
    /\ UNCHANGED <<root, now, running, monitor, sleepLeft, snoozed_items, file, alerts, log,
                   msgbox, dialog, pending_voice_note, reminders_listbox, tick>>

\* the form as the edit dialog shows it when it opens on reminder r
DialogForm(r) ==
    Form(r.title, r.description, r.date, TimeParts(r.time), Get(r, "priority", "normal"))

\* Save Changes is pressed on the dialog as it opened
save_begin_untouched == save_begin(DialogForm(reminders[dialog.idx]))

\* the rest of save: time, priority, voice note, save_data, refresh, messagebox
save_end ==
    /\ running
    /\ saving.busy
    /\ reminders' = SetAt(reminders, dialog.idx,
                          Edited(reminders[dialog.idx], saving.form, dialog.new_voice))
    /\ file' = save_data(reminders')
    /\ reminders_listbox' = Refreshed(reminders')
    /\ msgbox' = "Reminder updated!"
    /\ dialog' = NoDialog
    /\ saving' = NoSave
    /\ UNCHANGED <<root, now, running, monitor, sleepLeft, snoozed_items, alerts, log,
                   pending_voice_note, tick>>

\* Cancel: dialog.destroy
edit_cancel ==
    /\ DialogIdle
    /\ dialog' = NoDialog
    /\ UNCHANGED <<root, now, running, monitor, sleepLeft, reminders, snoozed_items, file,
                   alerts, log, msgbox, pending_voice_note,
                   reminders_listbox, tick, saving>>

----------------------------------------------------------------------------
(* Alerts *)

\* the window show_fullscreen_alert opens: what its snooze_action closure holds
AlertWindow(title, message, item_id, custom_voice) ==
    [title |-> title, message |-> message, item_id |-> item_id,
     custom_voice |-> custom_voice]

\* history entry: an alert was shown at time t for the reminder or snoozed item
\* with id src
Shown(kind, src, t) == [kind |-> kind, src |-> src, at |-> StrfDateTime(t), ms |-> t]

\* variant of TriggerTime: the minutes are added to the time of day, the date
\* is today's
TriggerTime_SameDay(t, minutes) == << StrfDate(t), StrfTime(t + minutes * MsPerMinute) >>

\* trigger_time of snooze_item: (datetime.now() + timedelta(minutes)).strftime(...)
TriggerTime(t, minutes) == StrfDateTime(t + minutes * MsPerMinute)

\* the dict snooze_item appends
snooze_item(item_id, minutes, title, message, custom_voice) ==
    [ id |-> TimeMillis,
      original_id |-> item_id,
      title |-> title,
      message |-> message,
      trigger_time |-> TriggerTime(now, minutes),
      custom_voice |-> custom_voice,
      active |-> TRUE ]

\* a snooze button of the k-th open alert: snooze_action(minutes)
snooze_action(k, minutes) ==
    /\ UiIdle
    /\ k \in 1..Len(alerts)
    /\ Len(snoozed_items) < MaxSnoozed
    /\ LET w == alerts[k]
       IN  snoozed_items' = append(snoozed_items,
               snooze_item(w.item_id, minutes, w.title, w.message, w.custom_voice))
    /\ alerts' = RemoveAt(alerts, k)
    /\ msgbox' = "Snoozed"
    /\ UNCHANGED <<root, now, running, monitor, sleepLeft, reminders, file, log, dialog,
                   pending_voice_note, reminders_listbox, tick, saving>>

\* the DISMISS button of the k-th open alert
dismiss(k) ==
    /\ UiIdle
    /\ k \in 1..Len(alerts)
    /\ alerts' = RemoveAt(alerts, k)
    /\ UNCHANGED <<root, now, running, monitor, sleepLeft, reminders, snoozed_items, file,
                   log, msgbox, dialog, pending_voice_note,
                   reminders_listbox, tick, saving>>

----------------------------------------------------------------------------
(* The monitor thread *)

\* An exception raised while the tick handles one item: by show_fullscreen_alert
\* ("alert") or by save_data ("save").
NoFault == [kind |-> "none", list |-> "none", at |-> 0]

Faults ==
    [kind : {"alert", "save"}, list : {"reminders"}, at : 1..MaxReminders]
    \cup [kind : {"alert"}, list : {"snoozed"}, at : 1..MaxSnoozed]

\* what a tick works on
TickState ==
    [rs |-> reminders, sn |-> snoozed_items, alerts |-> alerts, log |-> log,
     file |-> file, lb |-> reminders_listbox, raised |-> FALSE]

\* variant of Deactivated: the reminder repeats daily, the tick moves it on a day
Deactivated_NextDay(r) == [r EXCEPT !.date = @ + 1]

\* variant of Deactivated: the reminder is left as it is
Deactivated_Kept(r) == r

\* reminder['active'] = False
Deactivated(r) == [r EXCEPT !.active = FALSE]

\* variant of ReminderDue: a reminder whose minute has passed is due as well
ReminderDue_CatchUp(r, t) == r.active /\ StampMinute(r.date, r.time) <= MinuteOf(t)

\* the entry lacks a key that check_reminders reads of it: reminder['active'],
\* then, as far as the condition and the body of the if get,
\* reminder['date'], reminder['time'], reminder['title'],
\* reminder['description'], reminder['id']
KeyError(r, t) ==
    \/ "active" \notin DOMAIN r
    \/ /\ r.active
       /\ \/ "date" \notin DOMAIN r
          \/ /\ r.date = StrfDate(t)
             /\ \/ "time" \notin DOMAIN r
                \/ /\ r.time = StrfTime(t)
                   /\ ~({"title", "description", "id"} \subseteq DOMAIN r)

\* the condition of the if in check_reminders
ReminderDue(r, t) == r.active /\ r.date = StrfDate(t) /\ r.time = StrfTime(t)

\* variant of AlertRaised: the reminder is deactivated before its alert is shown
AlertRaised_Deactivated(st, i) ==
    [st EXCEPT !.raised = TRUE, !.rs = SetAt(@, i, Deactivated(@[i]))]

\* show_fullscreen_alert raises for the i-th reminder: the exception leaves
\* check_reminders at the call, before reminder['active'] = False and save_data
AlertRaised(st, i) == [st EXCEPT !.raised = TRUE]

\* variant of SaveRaised: a failed save takes the deactivation back
SaveRaised_RolledBack(shown, off) == [shown EXCEPT !.raised = TRUE]

\* save_data raises after reminder['active'] = False: the exception leaves
\* check_reminders with the alert shown and the reminder deactivated in memory
SaveRaised(shown, off) == [off EXCEPT !.raised = TRUE]

\* the for loop of check_reminders from the i-th reminder on, at clock reading t
RECURSIVE check_reminders(_, _, _, _)
check_reminders(i, st, t, fault) ==
    IF i > Len(st.rs) THEN st
    ELSE
      LET r == st.rs[i]
          w == AlertWindow(<< "REMINDER: " >> \o r.title, r.description, r.id,
                           Get(r, "voice_note", None))
          shown == [st EXCEPT !.alerts = Append(@, w),
                              !.log = Append(@, Shown("reminder", r.id, t))]
          off == [shown EXCEPT !.rs = SetAt(@, i, Deactivated(r))]
          saved == [off EXCEPT !.file = save_data(off.rs),
                               !.lb = Listbox(@.lines, t + AfterMs)]
      IN  IF KeyError(r, t) THEN [st EXCEPT !.raised = TRUE]
          ELSE IF ~ReminderDue(r, t) THEN check_reminders(i + 1, st, t, fault)
          ELSE IF fault = [kind |-> "alert", list |-> "reminders", at |-> i]
               THEN AlertRaised(st, i)
          ELSE IF fault = [kind |-> "save", list |-> "reminders", at |-> i]
               THEN SaveRaised(shown, off)
          ELSE check_reminders(i + 1, saved, t, fault)

\* variant of DeactivatedItem: the item stays armed and is due again in 5 minutes
DeactivatedItem_Repeating(item) == [item EXCEPT !.trigger_time = TriggerTime(now, 5)]

\* variant of DeactivatedItem: the item is left as it is
DeactivatedItem_Kept(item) == item

\* item['active'] = False
DeactivatedItem(item) == [item EXCEPT !.active = FALSE]

\* variant of SnoozedDue: a snoozed item is due only while its reminder exists
SnoozedDue_WhileReminderExists(item, t) ==
    /\ item.active
    /\ item.trigger_time = StrfDateTime(t)
    /\ \E i \in 1..Len(reminders) : reminders[i].id = item.original_id

\* the condition of the if in check_snoozed
SnoozedDue(item, t) == item.active /\ item.trigger_time = StrfDateTime(t)

\* the for loop of check_snoozed from the j-th item on
RECURSIVE check_snoozed(_, _, _, _)
check_snoozed(j, st, t, fault) ==
    IF j > Len(st.sn) THEN st
    ELSE
      LET item == st.sn[j]
          w == AlertWindow(item.title, item.message, item.original_id,
                           item.custom_voice)
          shown == [st EXCEPT !.alerts = Append(@, w),
                              !.log = Append(@, Shown("snoozed", item.id, t))]
          off == [shown EXCEPT !.sn = SetAt(@, j, DeactivatedItem(item))]
      IN  IF ~SnoozedDue(item, t) THEN check_snoozed(j + 1, st, t, fault)
          ELSE IF fault = [kind |-> "alert", list |-> "snoozed", at |-> j]
               THEN [st EXCEPT !.raised = TRUE]
          ELSE check_snoozed(j + 1, off, t, fault)

\* the try block of monitor_loop: check_reminders(), then check_snoozed()
TryBlock(st, t, fault) ==
    LET a == check_reminders(1, st, t, fault)
    IN  IF a.raised THEN a ELSE check_snoozed(1, a, t, fault)

\* variant of AfterException: the exception ends the thread
AfterException_Dead == "dead"

\* the monitor thread after the except clause of monitor_loop
AfterException == "alive"

\* variant of while_running: while True
while_running_Forever == TRUE

\* the condition of the while loop of monitor_loop
while_running == running

\* variant of Returned: show_fullscreen_alert waits for its window to be closed
\* (alert.wait_window()), so the thread is in the call while an alert is open
Returned_WhenClosed(open) == open = << >>

\* show_fullscreen_alert has returned to the monitor thread: it builds the
\* window, starts the sound and returns, whatever alert windows are open
Returned(open) == TRUE

\* one iteration of the while loop of monitor_loop
Iteration(fault) ==
    /\ while_running
    /\ monitor = "alive"
    /\ sleepLeft = 0
    /\ Returned(alerts)
    /\ LET st == TryBlock(TickState, now, fault)
       IN  /\ fault # NoFault => (st.raised /\ ~TryBlock(TickState, now, NoFault).raised)
           /\ reminders' = st.rs
           /\ snoozed_items' = st.sn
           /\ alerts' = st.alerts
           /\ log' = st.log
           /\ file' = st.file
           /\ reminders_listbox' = st.lb
           /\ monitor' = IF st.raised THEN AfterException ELSE "alive"
    /\ sleepLeft' = IF monitor' = "alive" THEN SleepMs ELSE 0
    /\ UNCHANGED <<root, now, running, msgbox, dialog, pending_voice_note, tick, saving>>

\* an iteration in which show_fullscreen_alert and save_data do not raise
monitor_loop == Iteration(NoFault)

\* an iteration in which show_fullscreen_alert or save_data raises
monitor_loop_raise == \E fault \in Faults : Iteration(fault)

\* the while condition fails: the thread ends
monitor_exit ==
    /\ ~while_running
    /\ monitor = "alive"
    /\ sleepLeft = 0
    /\ monitor' = "exited"
    /\ UNCHANGED <<root, now, running, sleepLeft, reminders, snoozed_items, file, alerts,
                   log, msgbox, dialog, pending_voice_note,
                   reminders_listbox, tick, saving>>

----------------------------------------------------------------------------
(* The monitor thread, statement by statement: the UI thread runs between the
   statements of a tick *)

\* variant of NextCall: check_snoozed is called before check_reminders
NextCall_SnoozedFirst(at) ==
    IF at = "sleep" THEN "snoozed" ELSE IF at = "snoozed" THEN "reminders" ELSE "sleep"

\* the try block of monitor_loop: check_reminders(), check_snoozed(), then the
\* sleep
NextCall(at) ==
    IF at = "sleep" THEN "reminders" ELSE IF at = "reminders" THEN "snoozed" ELSE "sleep"

\* the thread enters check_reminders or check_snoozed, which reads the clock, or
\* time.sleep(30)
Enter(at) ==
    IF at = "sleep" THEN NoTick
    ELSE [at |-> at, i |-> 1, stage |-> "if", t |-> now, detached |-> FALSE,
          list |-> << >>, doc |-> NoFile]

\* while self.running: try: ...
monitor_loop_begin ==
    /\ while_running
    /\ monitor = "alive"
    /\ sleepLeft = 0
    /\ tick.at = "sleep"
    /\ Returned(alerts)
    /\ tick' = Enter(NextCall("sleep"))
    /\ UNCHANGED <<root, now, running, monitor, sleepLeft, reminders, snoozed_items, file,
                   alerts, log, msgbox, dialog, pending_voice_note, reminders_listbox,
                   saving>>

\* for reminder in self.reminders: the loop is over
check_reminders_return ==
    /\ tick.at = "reminders"
    /\ tick.stage = "if"
    /\ tick.i > Len(Iterated)
    /\ tick' = Enter(NextCall("reminders"))
    /\ sleepLeft' = IF tick'.at = "sleep" THEN SleepMs ELSE sleepLeft
    /\ UNCHANGED <<root, now, running, monitor, reminders, snoozed_items, file, alerts, log,
                   msgbox, dialog, pending_voice_note, reminders_listbox, saving>>

\* if reminder['active'] and reminder['date'] == current_date and ...
check_reminders_if ==
    /\ tick.at = "reminders"
    /\ tick.stage = "if"
    /\ tick.i <= Len(Iterated)
    /\ tick' = IF ReminderDue(Iterated[tick.i], tick.t)
               THEN [tick EXCEPT !.stage = "show"]
               ELSE [tick EXCEPT !.i = @ + 1]
    /\ UNCHANGED <<root, now, running, monitor, sleepLeft, reminders, snoozed_items, file,
                   alerts, log, msgbox, dialog, pending_voice_note, reminders_listbox,
                   saving>>

\* self.show_fullscreen_alert(...)
check_reminders_show ==
    /\ tick.at = "reminders"
    /\ tick.stage = "show"
    /\ LET r == Iterated[tick.i]
       IN  /\ alerts' = Append(alerts,
                   AlertWindow(<< "REMINDER: " >> \o r.title, r.description, r.id,
                               Get(r, "voice_note", None)))
           /\ log' = Append(log, Shown("reminder", r.id, tick.t))
    /\ tick' = [tick EXCEPT !.stage = "deactivate"]
    /\ UNCHANGED <<root, now, running, monitor, sleepLeft, reminders, snoozed_items, file,
                   msgbox, dialog, pending_voice_note, reminders_listbox, saving>>

\* reminder['active'] = False
check_reminders_deactivate ==
    /\ tick.at = "reminders"
    /\ tick.stage = "deactivate"
    /\ LET r == Iterated[tick.i]
       IN  IF InStore(r.id)
           THEN /\ reminders' = SetAt(reminders, PlaceOf(r.id), Deactivated(r))
                /\ tick' = [tick EXCEPT !.stage = "save"]
           ELSE /\ reminders' = reminders
                /\ tick' = [tick EXCEPT !.stage = "save",
                                        !.list = SetAt(@, tick.i, Deactivated(r))]
    /\ UNCHANGED <<root, now, running, monitor, sleepLeft, snoozed_items, file, alerts, log,
                   msgbox, dialog, pending_voice_note, reminders_listbox, saving>>

\* self.save_data(); self.root.after(100, self.refresh_reminders_list)
check_reminders_save ==
    /\ tick.at = "reminders"
    /\ tick.stage = "save"
    /\ file' = save_data(reminders)
    /\ reminders_listbox' = Listbox(reminders_listbox.lines, now + AfterMs)
    /\ tick' = [tick EXCEPT !.stage = "if", !.i = @ + 1]
    /\ UNCHANGED <<root, now, running, monitor, sleepLeft, reminders, snoozed_items, alerts,
                   log, msgbox, dialog, pending_voice_note, saving>>

\* save_data of the tick, statement by statement: open(DATA_FILE, 'w') empties
\* the file and json.dump puts the text of the store as it is into the buffer of
\* the file object
check_reminders_save_open ==
    /\ tick.at = "reminders"
    /\ tick.stage = "save"
    /\ file' = Unparsable
    /\ tick' = [tick EXCEPT !.stage = "close", !.doc = save_data(reminders)]
    /\ UNCHANGED <<root, now, running, monitor, sleepLeft, reminders, snoozed_items, alerts,
                   log, msgbox, dialog, pending_voice_note, reminders_listbox, saving>>

\* What is on disk when a buffered text is written from offset 0 of a file
\* another file object may have written to since this one emptied it: the text
\* alone if the file is still empty or holds the same text; else the text alone
\* (it is at least as long as what was there) or the text followed by the rest
\* of what was there
Flushed(on_disk, doc) ==
    IF on_disk = Unparsable \/ on_disk = doc THEN { doc } ELSE { doc, Unparsable }

\* the with block of save_data ends: the buffer is written and the file closed;
\* then self.root.after(100, self.refresh_reminders_list)
check_reminders_save_close ==
    /\ tick.at = "reminders"
    /\ tick.stage = "close"
    /\ file' \in Flushed(file, tick.doc)
    /\ reminders_listbox' = Listbox(reminders_listbox.lines, now + AfterMs)
    /\ tick' = [tick EXCEPT !.stage = "if", !.i = @ + 1, !.doc = NoFile]
    /\ UNCHANGED <<root, now, running, monitor, sleepLeft, reminders, snoozed_items, alerts,
                   log, msgbox, dialog, pending_voice_note, saving>>

\* check_snoozed, in one step
check_snoozed_call ==
    /\ tick.at = "snoozed"
    /\ LET st == check_snoozed(1, TickState, tick.t, NoFault)
       IN  /\ snoozed_items' = st.sn
           /\ alerts' = st.alerts
           /\ log' = st.log
    /\ tick' = Enter(NextCall("snoozed"))
    /\ sleepLeft' = IF tick'.at = "sleep" THEN SleepMs ELSE sleepLeft
    /\ UNCHANGED <<root, now, running, monitor, reminders, file, msgbox, dialog,
                   pending_voice_note, reminders_listbox, saving>>

----------------------------------------------------------------------------
(* The environment: the clock, the user closing boxes, the process *)

Max(a, b) == IF a > b THEN a ELSE b

\* milliseconds to the next half minute of the clock
ToHalfMinute == SleepMs - (now % SleepMs)

\* the host sleeps for five minutes, once
LeapMs == 5 * MsPerMinute

Leapt == now >= StartNow + LeapMs

\* the last clock reading explored
Horizon == IF Leapt THEN MaxNow + LeapMs ELSE MaxNow

\* the clock moves on to the next half minute
Advance ==
    /\ now + ToHalfMinute <= Horizon
    /\ now' = now + ToHalfMinute
    /\ sleepLeft' = Max(0, sleepLeft - ToHalfMinute)
    /\ reminders_listbox' = MainLoop(now')
    /\ UNCHANGED <<root, running, monitor, reminders, snoozed_items, file, alerts, log,
                   msgbox, dialog, pending_voice_note, tick, saving>>

\* the clock moves on by five minutes
Leap ==
    /\ ~Leapt
    /\ now' = now + LeapMs
    /\ sleepLeft' = Max(0, sleepLeft - LeapMs)
    /\ reminders_listbox' = MainLoop(now')
    /\ UNCHANGED <<root, running, monitor, reminders, snoozed_items, file, alerts, log,
                   msgbox, dialog, pending_voice_note, tick, saving>>

\* The time that passes while the UI thread waits in a modal messagebox for the
\* user's click, or while the program starts: d > 0 milliseconds
ClickDelays == { 1, ToHalfMinute }

\* the user closes the messagebox

CloseMessageBox(d) ==
    /\ running
    /\ msgbox # NoBox
    /\ d = 1 => (now % SleepMs) < MaxClicks
    /\ now + d <= Horizon
    /\ now' = now + d
    /\ sleepLeft' = Max(0, sleepLeft - d)
    /\ msgbox' = NoBox
    /\ reminders_listbox' = MainLoop(now')
    /\ UNCHANGED <<root, running, monitor, reminders, snoozed_items, file, alerts, log,
                   dialog, pending_voice_note, tick, saving>>

\* quit_app: root.quit() ends the main loop, and with it every window
quit_app ==
    /\ running
    /\ running' = FALSE
    /\ alerts' = << >>
    /\ msgbox' = NoBox
    /\ dialog' = NoDialog
    /\ root' = FALSE
    /\ reminders_listbox' = Listbox(<< >>, NoTimer)
    /\ UNCHANGED <<now, monitor, sleepLeft, reminders, snoozed_items, file, log,
                   pending_voice_note, tick, saving>>

\* history entry: the program was started at time t
Started(t) == [kind |-> "start", src |-> 0, at |-> StrfDateTime(t), ms |-> t]

\* variant of NewSnoozedItems: the snoozed list outlives the process
NewSnoozedItems_Restored == snoozed_items

\* self.snoozed_items = [] of __init__: nothing is loaded into it
NewSnoozedItems == << >>

\* the process has ended and is started again: ReminderApp.__init__; the new
\* process is up d > 0 milliseconds after the old one ended
Restart(d) ==
    /\ ~running
    /\ monitor = "exited"
    /\ Cardinality({ n \in 1..Len(log) : log[n].kind = "start" }) < MaxStarts
    /\ d = 1 => (now % SleepMs) < MaxClicks
    /\ now + d <= Horizon
    /\ now' = now + d
    /\ reminders' = load_data(file)
    /\ snoozed_items' = NewSnoozedItems
    /\ running' = TRUE
    /\ root' = ~RefreshRaises(reminders')
    /\ pending_voice_note' = None
    /\ monitor' = "alive"
    /\ sleepLeft' = 0
    /\ alerts' = << >>
    /\ msgbox' = NoBox
    /\ dialog' = NoDialog
    /\ log' = Append(log, Started(now'))
    /\ reminders_listbox' = IF root' THEN Listbox(refresh_reminders_list(reminders'), NoTimer)
                                    ELSE Listbox(<< >>, NoTimer)
    /\ UNCHANGED <<file, tick, saving>>

\* What load_data may find in place of the file the program wrote: no file, text
\* that is no JSON (an empty or a cut-off file), JSON that is no object, and an
\* object whose "reminders" holds an entry without the keys of a reminder,
\* {"reminders": [{"id": 1}], "alarms": []}
Documents ==
    { NoFile,
      [exists |-> TRUE, json |-> "invalid", reminders |-> << >>, alarms |-> << >>],
      [exists |-> TRUE, json |-> "other", reminders |-> << >>, alarms |-> << >>],
      [exists |-> TRUE, json |-> "object",
       reminders |-> << [id |-> [t |-> "number", v |-> 1]] >>, alarms |-> << >>] }

\* while the program is down the data file is deleted, cut off or overwritten
Damage(doc) ==
    /\ ~running
    /\ monitor = "exited"
    /\ file # doc
    /\ file' = doc
    /\ UNCHANGED <<root, now, running, monitor, sleepLeft, reminders, snoozed_items,
                   alerts, log, msgbox, dialog, pending_voice_note,
                   reminders_listbox, tick, saving>>

----------------------------------------------------------------------------
(* Specifications *)

AlertKeys == 1..(MaxReminders + MaxSnoozed)

\* one session of the program: the user works with the main window, the edit
\* dialog and the alerts while the monitor thread polls; nothing raises
Next ==
    \/ \E f \in AddForms : AddRejected(f)
    \/ \E f \in AddForms : add_reminder_gui(f)
    \/ record_voice_note
    \/ \E sel \in 1..MaxReminders : delete_reminder(sel)
    \/ \E sel \in 1..MaxReminders : edit_reminder(sel)
    \/ remove_voice
    \/ record_new_voice
    \/ \E f \in Forms : edit_save(f)
    \/ edit_cancel
    \/ \E k \in AlertKeys, m \in SnoozeMinutes : snooze_action(k, m)
    \/ \E k \in AlertKeys : dismiss(k)
    \/ \E d \in ClickDelays : CloseMessageBox(d)
    \/ Advance
    \/ monitor_loop

Spec == Init /\ [][Next]_vars

\* the store over several sessions: the user adds, edits and deletes reminders,
\* quits and starts the program again, which loads the data file
NextStore ==
    \/ \E f \in Forms : add_reminder_gui(f)
    \/ record_voice_note
    \/ \E sel \in 1..MaxReminders : delete_reminder(sel)
    \/ \E sel \in 1..MaxReminders : edit_reminder(sel)
    \/ remove_voice
    \/ record_new_voice
    \/ \E f \in Forms : edit_save(f)
    \/ edit_cancel
    \/ \E d \in ClickDelays : CloseMessageBox(d)
    \/ quit_app
    \/ monitor_exit
    \/ \E d \in ClickDelays : Restart(d)
    \/ Advance
    \/ monitor_loop

SpecStore == Init /\ [][NextStore]_vars

\* the same, with a clock that keeps moving and a monitor thread that is
\* scheduled when it can run
SpecStoreFair == SpecStore /\ WF_vars(Advance) /\ WF_vars(monitor_exit)

\* the program is started on whatever is in place of the data file
NextLoad ==
    \/ \E f \in Forms : add_reminder_gui(f)
    \/ \E sel \in 1..MaxReminders : delete_reminder(sel)
    \/ \E d \in ClickDelays : CloseMessageBox(d)
    \/ quit_app
    \/ monitor_exit
    \/ \E doc \in Documents : Damage(doc)
    \/ \E d \in ClickDelays : Restart(d)
    \/ Advance
    \/ monitor_loop

SpecLoad == Init /\ [][NextLoad]_vars

\* the delivery of snoozed items: the clock leaps to the minutes they are due in;
\* the user adds, edits and deletes reminders and answers alerts
NextLeap ==
    \/ \E f \in Forms : add_reminder_gui(f)
    \/ record_voice_note
    \/ \E sel \in 1..MaxReminders : delete_reminder(sel)
    \/ \E sel \in 1..MaxReminders : edit_reminder(sel)
    \/ \E f \in Forms : edit_save(f)
    \/ \E k \in AlertKeys, m \in SnoozeMinutes : snooze_action(k, m)
    \/ \E k \in AlertKeys : dismiss(k)
    \/ \E d \in ClickDelays : CloseMessageBox(d)
    \/ Advance
    \/ Leap
    \/ monitor_loop

SpecLeap == Init /\ [][NextLeap]_vars

\* show_fullscreen_alert and save_data may raise; the user adds reminders,
\* answers alerts, quits and starts the program again
NextFault ==
    \/ \E f \in Forms : add_reminder_gui(f)
    \/ \E k \in AlertKeys, m \in SnoozeMinutes : snooze_action(k, m)
    \/ \E k \in AlertKeys : dismiss(k)
    \/ \E d \in ClickDelays : CloseMessageBox(d)
    \/ quit_app
    \/ \E d \in ClickDelays : Restart(d)
    \/ Advance
    \/ Leap
    \/ monitor_loop
    \/ monitor_loop_raise
    \/ monitor_exit

SpecFault == Init /\ [][NextFault]_vars

\* what the user saves in the edit dialog while the monitor thread is in a tick
RaceForms ==
    { Form(<<"a">>, <<"d">>, 1, <<11, 59, "PM">>, "normal"),      \* 23:59 of day 1
      Form(<<"a">>, <<"d">>, 0, <<11, 59, "PM">>, "normal") }     \* 23:59 of day 0

\* what the user adds there: the reminders dated day 0, due at 23:59 or past
RaceAdds == { f \in Forms : f.date = 0 }

\* the snooze button the user clicks there
RaceMinutes == { 5 }

\* one session with the two threads interleaved statement by statement: the
\* user adds, deletes and edits reminders and snoozes alerts while the monitor
\* thread is inside a tick
NextRace ==
    \/ \E f \in RaceAdds : add_reminder_gui(f)
    \/ \E sel \in 1..MaxReminders : delete_reminder(sel)
    \/ \E sel \in 1..MaxReminders : edit_reminder(sel)
    \/ \E f \in RaceForms : save_begin(f)
    \/ save_end
    \/ \E k \in AlertKeys, m \in RaceMinutes : snooze_action(k, m)
    \/ \E d \in ClickDelays : CloseMessageBox(d)
    \/ Advance
    \/ monitor_loop_begin
    \/ check_reminders_if
    \/ check_reminders_show
    \/ check_reminders_deactivate
    \/ check_reminders_save
    \/ check_reminders_return
    \/ check_snoozed_call

SpecRace == Init /\ [][NextRace]_vars

\* the same, with the save_data of a tick in two steps, the open and the close
\* of the file: the UI thread's handlers write the file in between
NextWrites ==
    \/ \E f \in RaceAdds : add_reminder_gui(f)
    \/ \E sel \in 1..MaxReminders : delete_reminder(sel)
    \/ \E sel \in 1..MaxReminders : edit_reminder(sel)
    \/ \E f \in RaceForms : edit_save(f)
    \/ \E d \in ClickDelays : CloseMessageBox(d)
    \/ Advance
    \/ monitor_loop_begin
    \/ check_reminders_if
    \/ check_reminders_show
    \/ check_reminders_deactivate
    \/ check_reminders_save_open
    \/ check_reminders_save_close
    \/ check_reminders_return
    \/ check_snoozed_call

SpecWrites == Init /\ [][NextWrites]_vars

\* the reminder a store loaded from the data file holds, with its time of day
Stored(hhmm) ==
    [id |-> StartNow - MsPerMinute, title |-> <<"a">>, description |-> <<"d">>,
     date |-> 1, time |-> hhmm, priority |-> "normal", active |-> TRUE]

\* the times of day a reminder can be stored with
AllTimes ==
    { Fmt02(h) \o << ":" >> \o Fmt02(m) :
          h \in 0..(HoursPerDay - 1), m \in 0..(MinutesPerHour - 1) }

\* the program has started on a data file with one reminder, at any time of day
InitTime ==
    /\ now = StartNow
    /\ running = TRUE
    /\ root = TRUE
    /\ monitor = "alive"
    /\ sleepLeft = 0
    /\ \E t \in AllTimes : file = save_data(<< Stored(t) >>)
    /\ reminders = load_data(file)
    /\ snoozed_items = << >>
    /\ alerts = << >>
    /\ log = << >>
    /\ msgbox = NoBox
    /\ dialog = NoDialog
    /\ pending_voice_note = None
    /\ reminders_listbox = Listbox(refresh_reminders_list(reminders), NoTimer)
    /\ tick = NoTick
    /\ saving = NoSave

\* the edit dialog on a reminder of any time of day: the user opens it and
\* saves it as it is, or with another schedule, or cancels
NextTime ==
    \/ \E sel \in 1..MaxReminders : edit_reminder(sel)
    \/ save_begin_untouched
    \/ \E f \in Forms : save_begin(f)
    \/ save_end
    \/ edit_cancel

SpecTime == InitTime /\ [][NextTime]_vars

\* the monitor thread is at the top of its loop and can start a tick
TickPending == while_running /\ monitor = "alive" /\ sleepLeft = 0 /\ Returned(alerts)

\* the thread is scheduled when its sleep is over: the clock does not move on
\* while a tick can start
AdvanceTimely == ~TickPending /\ Advance

CloseMessageBoxTimely(d) == ~TickPending /\ CloseMessageBox(d)

\* a process that keeps running with a monitor thread that starts its ticks on
\* time: the user adds reminders and dismisses alerts
NextTimely ==
    \/ \E f \in Forms : add_reminder_gui(f)
    \/ \E k \in AlertKeys : dismiss(k)
    \/ \E d \in ClickDelays : CloseMessageBoxTimely(d)
    \/ AdvanceTimely
    \/ monitor_loop

SpecTimely ==
    Init /\ [][NextTimely]_vars /\ WF_vars(AdvanceTimely) /\ WF_vars(monitor_loop)

\* snoozed items over several sessions: the user adds reminders, snoozes their
\* alerts, quits and starts the program again; the clock leaps to the minutes the
\* snoozed items are due in
NextSessions ==
    \/ \E f \in Forms : add_reminder_gui(f)
    \/ \E k \in AlertKeys, m \in SnoozeMinutes : snooze_action(k, m)
    \/ \E d \in ClickDelays : CloseMessageBox(d)
    \/ quit_app
    \/ monitor_exit
    \/ \E d \in ClickDelays : Restart(d)
    \/ Advance
    \/ Leap
    \/ monitor_loop

SpecSessions == Init /\ [][NextSessions]_vars

----------------------------------------------------------------------------
(* Properties *)

\* how often an alert was shown for the reminder (kind "reminder") or the snoozed
\* item (kind "snoozed") with id src
Dispatches(l, kind, src) ==
    Cardinality({ n \in 1..Len(l) : l[n].kind = kind /\ l[n].src = src })

\* an alert was shown for src during the minute the clock is in
ShownThisMinute(kind, src) ==
    \E n \in 1..Len(log) :
        log[n].kind = kind /\ log[n].src = src /\ log[n].at = StrfDateTime(now)

\* a tick has just run at the present clock reading
JustTicked == running /\ monitor = "alive" /\ sleepLeft = SleepMs

\* C1: a tick that runs while the clock's date and HH:MM equal those of an active
\* reminder shows exactly one alert for it and leaves it inactive; a tick in a
\* minute in which the reminder's alert was already shown shows none for it.
C1_DispatchedOnceAtItsMinute ==
    [][monitor_loop =>
        \A i \in 1..Len(reminders) :
            LET r == reminders[i]
                before == Dispatches(log, "reminder", r.id)
                after == Dispatches(log', "reminder", r.id)
            IN  /\ (r.active /\ r.date = StrfDate(now) /\ r.time = StrfTime(now))
                   => (after = before + 1 /\ ~reminders'[i].active)
                /\ ShownThisMinute("reminder", r.id) => after = before]_vars

\* a reminder scheduled after it was created is inactive, its one alert was shown
\* in its minute, and a later tick has just run in that same minute
C1_Witness ==
    \E i \in 1..Len(reminders), n \in 1..Len(log) :
        LET r == reminders[i] IN
        /\ ~r.active
        /\ MinuteOf(r.id) < StampMinute(r.date, r.time)
        /\ log[n] = Shown("reminder", r.id, log[n].ms)
        /\ log[n].at = << r.date, r.time >>
        /\ log[n].at = StrfDateTime(now)
        /\ log[n].ms < now
        /\ JustTicked
        /\ Dispatches(log, "reminder", r.id) = 1

\* C2: a tick that runs after the minute of an active reminder has passed shows no
\* alert for it and leaves it as it is, active.
C2_PastMinuteNeverDispatched ==
    [][monitor_loop =>
        \A i \in 1..Len(reminders) :
            LET r == reminders[i] IN
            (r.active /\ StampMinute(r.date, r.time) < MinuteOf(now))
            => /\ reminders'[i] = r
               /\ Dispatches(log', "reminder", r.id) = Dispatches(log, "reminder", r.id)]_vars

\* a reminder created before its minute is still active and was never shown, the
\* minute has passed, and a tick has just run
C2_Witness ==
    \E i \in 1..Len(reminders) :
        LET r == reminders[i] IN
        /\ r.active
        /\ MinuteOf(r.id) < StampMinute(r.date, r.time)
        /\ StampMinute(r.date, r.time) < MinuteOf(now)
        /\ Dispatches(log, "reminder", r.id) = 0
        /\ JustTicked

\* the item the fault names is the one whose handling raises
FaultAt(fault, list, n) == fault.list = list /\ fault.at = n

\* C3: in a tick in which the handling of one due item raises, an alert is shown
\* for every other active reminder and every active snoozed item due in that
\* minute.
C3_OthersStillDispatched ==
    [][\A fault \in Faults :
        Iteration(fault) =>
            /\ \A i \in 1..Len(reminders) :
                   (ReminderDue(reminders[i], now) /\ ~FaultAt(fault, "reminders", i))
                   => Dispatches(log', "reminder", reminders[i].id)
                        = Dispatches(log, "reminder", reminders[i].id) + 1
            /\ \A j \in 1..Len(snoozed_items) :
                   (SnoozedDue(snoozed_items[j], now) /\ ~FaultAt(fault, "snoozed", j))
                   => Dispatches(log', "snoozed", snoozed_items[j].id)
                        = Dispatches(log, "snoozed", snoozed_items[j].id) + 1]_vars

\* C4: an iteration of monitor_loop in which an exception is raised leaves the
\* thread alive and sleeping for the period; while running is true the thread is
\* alive, and once its sleep is over the next iteration can start.
C4_LoopSurvivesException ==
    /\ [][monitor_loop_raise => (monitor' = "alive" /\ sleepLeft' = SleepMs)]_vars
    /\ [](running => (monitor = "alive" /\ (sleepLeft = 0 => ENABLED monitor_loop)))

\* save_data raised after a reminder was deactivated (the file still says active),
\* and a later tick has shown the alert of a snoozed item
C4_Witness ==
    /\ running
    /\ monitor = "alive"
    /\ \E i \in 1..Len(reminders) :
           /\ ~reminders[i].active
           /\ i \in 1..Len(file.reminders)
           /\ file.reminders[i].id.v = reminders[i].id
           /\ file.reminders[i].active.t = "true"
           /\ \E n \in 1..Len(log), j \in 1..Len(snoozed_items) :
                  /\ log[n].kind = "snoozed"
                  /\ log[n].src = snoozed_items[j].id
                  /\ snoozed_items[j].original_id = reminders[i].id

\* "YYYY-MM-DD HH:MM" of the minute m of the clock, by calendar arithmetic
MinuteStamp(m) ==
    << m \div MinutesPerDay,
       Fmt02((m % MinutesPerDay) \div MinutesPerHour) \o << ":" >>
           \o Fmt02(m % MinutesPerHour) >>

\* 14:30:12 of day 0
HalfPastTwo == (14 * MinutesPerHour + 30) * MsPerMinute + 12 * MsPerSecond

\* C5: a snooze button pressed at clock reading T appends one snoozed item, active,
\* whose trigger_time is the minute of T plus the minutes of the button, carried
\* over hours and days; 10 minutes at 14:30:12 give "14:40" of the same day.
C5_SnoozeTriggerTime ==
    /\ [][\A k \in AlertKeys, m \in SnoozeMinutes :
            snooze_action(k, m) =>
                /\ Len(snoozed_items') = Len(snoozed_items) + 1
                /\ LET s == snoozed_items'[Len(snoozed_items')]
                   IN  /\ s.active
                       /\ s.original_id = alerts[k].item_id
                       /\ s.trigger_time = MinuteStamp(MinuteOf(now) + m)]_vars
    /\ [](TriggerTime(HalfPastTwo, 10) = << 0, << "1", "4", ":", "4", "0" >> >>)

\* an alert was snoozed late on day 0, some seconds into a minute, and the
\* snoozed item is to trigger on day 1
C5_Witness ==
    \E j \in 1..Len(snoozed_items) :
        LET s == snoozed_items[j] IN
        /\ s.active
        /\ s.id % MsPerMinute # 0
        /\ StrfDate(s.id) = 0
        /\ s.trigger_time[1] = 1
        /\ ParseTime(s.trigger_time[2]) < MinutesPerHour

\* C6: a tick that runs while the clock's "YYYY-MM-DD HH:MM" equals the
\* trigger_time of an active snoozed item opens one alert with the item's stored
\* title, message and voice and leaves the item inactive, nothing else of it
\* changed; a tick shows no alert for any other snoozed item, so no snoozed item is
\* ever shown twice.
C6_SnoozedDispatchedOnce ==
    /\ [][monitor_loop =>
            \A j \in 1..Len(snoozed_items) :
                LET s == snoozed_items[j]
                    before == Dispatches(log, "snoozed", s.id)
                    after == Dispatches(log', "snoozed", s.id)
                IN  IF s.active /\ s.trigger_time = MinuteStamp(MinuteOf(now))
                    THEN /\ after = before + 1
                         /\ snoozed_items'[j] = [s EXCEPT !.active = FALSE]
                         /\ \E k \in (Len(alerts) + 1)..Len(alerts') :
                                alerts'[k] = AlertWindow(s.title, s.message,
                                                         s.original_id, s.custom_voice)
                    ELSE /\ after = before
                         /\ snoozed_items'[j] = s]_vars
    /\ [](\A j \in 1..Len(snoozed_items) :
              Dispatches(log, "snoozed", snoozed_items[j].id) <= 1)

\* a snoozed item with a voice note was shown in its minute, with its title and
\* voice, is inactive, and a later tick has just run in that same minute
C6_Witness ==
    \E j \in 1..Len(snoozed_items), n \in 1..Len(log), k \in 1..Len(alerts) :
        LET s == snoozed_items[j] IN
        /\ ~s.active
        /\ s.custom_voice # None
        /\ log[n] = Shown("snoozed", s.id, log[n].ms)
        /\ log[n].at = s.trigger_time
        /\ log[n].at = StrfDateTime(now)
        /\ log[n].ms < now
        /\ JustTicked
        /\ alerts[k] = AlertWindow(s.title, s.message, s.original_id, s.custom_voice)
        /\ Dispatches(log, "snoozed", s.id) = 1

\* C7: a reminder whose alert was shown is inactive, whatever was added, edited,
\* deleted, snoozed or polled since, and its alert was shown once; no reminder's
\* alert is ever shown twice.
C7_DeliveredStaysInactive ==
    /\ \A i \in 1..Len(reminders) :
           Dispatches(log, "reminder", reminders[i].id) > 0 => ~reminders[i].active
    /\ \A n \in 1..Len(log) :
           log[n].kind = "reminder" => Dispatches(log, "reminder", log[n].src) = 1

\* a delivered reminder was edited since (its schedule is another one than the
\* minute its alert was shown in), a later minute has come and a tick has just
\* run
C7_Witness ==
    \E i \in 1..Len(reminders), n \in 1..Len(log) :
        LET r == reminders[i] IN
        /\ log[n].kind = "reminder"
        /\ log[n].src = r.id
        /\ log[n].at # << r.date, r.time >>
        /\ << r.date, r.time >> = StrfDateTime(now)
        /\ ~r.active
        /\ JustTicked

\* C8: no two reminders of the store have the same id.
C8_UniqueIds ==
    \A i, j \in 1..Len(reminders) : i # j => reminders[i].id # reminders[j].id

\* a reminder was added, the program was started again and loaded it, and a
\* second reminder was added within the same second as the first
C8_Witness ==
    /\ Len(reminders) = 2
    /\ reminders[1].id \div MsPerSecond = reminders[2].id \div MsPerSecond
    /\ \E n \in 1..Len(log) :
           /\ log[n].kind = "start"
           /\ reminders[1].id < log[n].ms
           /\ log[n].ms <= reminders[2].id

\* C9: whenever no handler of the UI thread is under way (no messagebox and no
\* edit dialog is open), the "reminders" array of the data file is the in-memory
\* list.
C9_FileIsStore ==
    (running /\ msgbox = NoBox /\ ~dialog.open) => file.reminders = JsonDumpList(reminders)

\* C10: saving the store and loading the file gives the list that was saved.
C10_RoundTrip ==
    load_data(save_data(reminders)) = reminders

\* a delivered reminder whose voice note was removed (None), saved, and loaded
\* by the program started again
C10_Witness ==
    /\ file = save_data(reminders)
    /\ \E i \in 1..Len(reminders) :
           /\ "voice_note" \in DOMAIN reminders[i]
           /\ reminders[i].voice_note = None
           /\ ~reminders[i].active
    /\ running
    /\ \E n \in 1..Len(log) : log[n].kind = "start" /\ log[n].ms = now

\* the data file is one save_data can have written: a JSON object whose
\* "reminders" is a list of objects with the keys of a reminder
ReminderKeys == {"id", "title", "description", "date", "time", "priority", "active"}

WellFormed(f) ==
    /\ f.exists
    /\ f.json = "object"
    /\ \A i \in 1..Len(f.reminders) : ReminderKeys \subseteq DOMAIN f.reminders[i]

\* C11: started on a missing data file or on one with malformed content, the
\* program has an empty reminders list and its main window comes up.
C11_BadFileIsEmptyStore ==
    [][\A d \in ClickDelays :
        (Restart(d) /\ ~WellFormed(file)) => (reminders' = << >> /\ root')]_vars

\* C12: Delete on a line of the listbox removes the one entry with the id shown
\* there, leaves the other entries as they were and in their order, and writes
\* the list to the data file; filtering the id out of the list once more changes
\* nothing.
C12_DeleteRemovesOne ==
    [][\A sel \in 1..MaxReminders :
        delete_reminder(sel) =>
            LET id == reminders_listbox.lines[sel]
                i == CHOOSE n \in 1..Len(reminders) : reminders[n].id = id
            IN  /\ Len(reminders') = Len(reminders) - 1
                /\ \A n \in 1..Len(reminders') :
                       reminders'[n] = reminders[IF n < i THEN n ELSE n + 1]
                /\ file'.exists
                /\ file'.reminders = JsonDumpList(reminders')
                /\ WithoutId(reminders', id) = reminders']_vars

\* the first of two reminders was deleted: the second, added a millisecond after
\* it, is the one entry of the list and of the file
C12_Witness ==
    /\ msgbox = "Deleted!"
    /\ Len(reminders) = 1
    /\ reminders[1].id = StartNow + MaxClicks
    /\ file.exists
    /\ file.reminders = JsonDumpList(reminders)

\* the keys the edit dialog's save assigns
EditedKeys == {"title", "description", "date", "time", "priority", "voice_note"}

\* C13: Save Changes in the edit dialog of reminder r gives r the title,
\* description, date, time and priority of the form (and the new voice note, if
\* one was recorded); r's other keys, id and active among them, r's place in the
\* list, the length of the list and every other reminder are as before, and the
\* data file holds the new list.
C13_EditReplacesFieldsOnly ==
    [][\A f \in Forms :
        edit_save(f) =>
            LET i == dialog.idx
                r == reminders[i]
                e == reminders'[i]
            IN  /\ Len(reminders') = Len(reminders)
                /\ \A n \in 1..Len(reminders) : n # i => reminders'[n] = reminders[n]
                /\ DOMAIN e \ {"voice_note"} = DOMAIN r \ {"voice_note"}
                /\ \A k \in DOMAIN r \ EditedKeys : e[k] = r[k]
                /\ e.id = r.id
                /\ e.active = r.active
                /\ e.title = Strip(f.title)
                /\ e.description = Strip(f.desc)
                /\ e.date = f.date
                /\ e.time = get_24hour_time(f.hma[1], f.hma[2], f.hma[3])
                /\ e.priority = f.priority
                /\ IF Truthy(dialog.new_voice)
                   THEN e.voice_note = dialog.new_voice
                   ELSE \A k \in DOMAIN r \cap {"voice_note"} :
                            k \in DOMAIN e /\ e[k] = r[k]
                /\ file'.exists
                /\ file'.reminders = JsonDumpList(reminders')]_vars

\* one of two reminders was delivered while its edit dialog was open, and the
\* dialog was saved in the same instant with another schedule: it is inactive
\* still
C13_Witness ==
    /\ msgbox = "Reminder updated!"
    /\ Len(reminders) = 2
    /\ file.reminders = JsonDumpList(reminders)
    /\ \E i \in 1..Len(reminders), n \in 1..Len(log) :
           /\ log[n].kind = "reminder"
           /\ log[n].src = reminders[i].id
           /\ log[n].ms = now
           /\ log[n].at # << reminders[i].date, reminders[i].time >>
           /\ ~reminders[i].active

\* C14: Add Reminder with a title that is not empty after strip() makes the list
\* one longer; the new reminder is the last entry, has active = TRUE and the
\* form's values; the entries that were there keep their values and places; and
\* the data file holds the new list.
C14_AddAppendsOne ==
    [][\A f \in Forms :
        add_reminder_gui(f) =>
            LET n == Len(reminders')
            IN  /\ n = Len(reminders) + 1
                /\ \A i \in 1..Len(reminders) : reminders'[i] = reminders[i]
                /\ reminders'[n].active = TRUE
                /\ reminders'[n].title = Strip(f.title)
                /\ reminders'[n].title # << >>
                /\ reminders'[n].description = Strip(f.desc)
                /\ reminders'[n].date = f.date
                /\ reminders'[n].priority = f.priority
                /\ file'.exists
                /\ file'.reminders = JsonDumpList(reminders')]_vars

\* a second reminder, of another title, was added just now behind the first
C14_Witness ==
    /\ msgbox = "Reminder added!"
    /\ Len(reminders) = 2
    /\ reminders[2].id = now
    /\ reminders[1].id < reminders[2].id
    /\ reminders[1].title # reminders[2].title
    /\ reminders[2].active
    /\ file.reminders = JsonDumpList(reminders)

\* the places of the active reminders in the list
ActivePlaces == {i \in 1..Len(reminders) : reminders[i].active}

ShownInStep(kind, src) ==
    \E n \in (Len(log) + 1)..Len(log') : log'[n].kind = kind /\ log'[n].src = src

\* C16: a tick leaves both lists at their lengths, and each entry of either
\* list is after the tick what it was before, or it was active, the tick showed
\* its alert, and it differs from what it was only in that active is FALSE.
C16_TickOnlyFlipsActive ==
    [][monitor_loop =>
        /\ Len(reminders') = Len(reminders)
        /\ Len(snoozed_items') = Len(snoozed_items)
        /\ \A i \in 1..Len(reminders) :
               \/ reminders'[i] = reminders[i]
               \/ /\ reminders[i].active
                  /\ reminders'[i] = [reminders[i] EXCEPT !.active = FALSE]
                  /\ ShownInStep("reminder", reminders[i].id)
        /\ \A j \in 1..Len(snoozed_items) :
               \/ snoozed_items'[j] = snoozed_items[j]
               \/ /\ snoozed_items[j].active
                  /\ snoozed_items'[j] = [snoozed_items[j] EXCEPT !.active = FALSE]
                  /\ ShownInStep("snoozed", snoozed_items[j].id)]_vars

\* the tick that has just run showed the alert of the snoozed item, which is
\* inactive; of the two reminders one was delivered before and the other, whose
\* minute is not the present one, is active still
C16_Witness ==
    /\ JustTicked
    /\ Len(reminders) = 2
    /\ \E i, k \in 1..Len(reminders) :
           /\ ~reminders[i].active
           /\ reminders[k].active
           /\ ~ReminderDue(reminders[k], now)
           /\ \E j \in 1..Len(snoozed_items) :
                  /\ ~snoozed_items[j].active
                  /\ snoozed_items[j].original_id = reminders[i].id
                  /\ log # << >>
                  /\ log[Len(log)] = Shown("snoozed", snoozed_items[j].id, now)

\* C17: a snooze button of an alert makes the snoozed list one longer: the new
\* item is the last, is active and carries the alert's item_id; the snoozed
\* items that were there keep their values and places, the reminders list (the
\* active flag of the alert's reminder with it) and the data file are as before.
C17_SnoozeOnlyAppends ==
    [][\A k \in AlertKeys, m \in SnoozeMinutes :
        snooze_action(k, m) =>
            LET n == Len(snoozed_items')
            IN  /\ n = Len(snoozed_items) + 1
                /\ \A j \in 1..Len(snoozed_items) : snoozed_items'[j] = snoozed_items[j]
                /\ snoozed_items'[n].active
                /\ snoozed_items'[n].original_id = alerts[k].item_id
                /\ snoozed_items'[n].trigger_time = StrfDateTime(now + m * MsPerMinute)
                /\ reminders' = reminders
                /\ file' = file]_vars

\* the alerts of two delivered reminders were snoozed, the second just now: two
\* snoozed items, the reminders inactive as delivery left them
C17_Witness ==
    /\ msgbox = "Snoozed"
    /\ Len(snoozed_items) = 2
    /\ Len(reminders) = 2
    /\ snoozed_items[2].id = now
    /\ snoozed_items[1].id < now
    /\ snoozed_items[1].active
    /\ snoozed_items[1].original_id # snoozed_items[2].original_id
    /\ \A j \in 1..2 : \E i \in 1..2 :
           reminders[i].id = snoozed_items[j].original_id /\ ~reminders[i].active
    /\ file.reminders = JsonDumpList(reminders)

\* C18: the buttons of an alert window (the snooze buttons and DISMISS) change
\* neither the reminders list nor the snoozed list: what changes in the lists
\* after an alert is changed by a tick of the monitor thread.
C18_DispatcherLeavesStore ==
    [][( \/ \E k \in AlertKeys, m \in SnoozeMinutes : snooze_action(k, m)
         \/ \E k \in AlertKeys : dismiss(k) )
        => UNCHANGED << reminders, snoozed_items >>]_vars

\* C19: while alert windows are open the monitor thread, its sleep over, runs
\* its next tick, and that tick shows the alert of every reminder and every
\* snoozed item that is due, beside the open ones.
C19_TickWhileAlertOpen ==
    /\ []((running /\ monitor = "alive" /\ sleepLeft = 0 /\ alerts # << >>)
            => ENABLED monitor_loop)
    /\ [][(monitor_loop /\ alerts # << >>) =>
            /\ \A i \in 1..Len(reminders) :
                   ReminderDue(reminders[i], now)
                       => ShownInStep("reminder", reminders[i].id)
            /\ \A j \in 1..Len(snoozed_items) :
                   SnoozedDue(snoozed_items[j], now)
                       => ShownInStep("snoozed", snoozed_items[j].id)
            /\ Len(alerts') = Len(alerts) + (Len(log') - Len(log))
            /\ \A k \in 1..Len(alerts) : alerts'[k] = alerts[k]]_vars

\* the alert of a reminder, shown by an earlier tick, is open still, and the
\* tick that has just run showed the alert of a snoozed item of another
\* reminder beside it
C19_Witness ==
    /\ JustTicked
    /\ Len(alerts) = 2
    /\ Len(log) = 3
    /\ log[3].kind = "snoozed"
    /\ log[3].ms = now
    /\ \E n \in 1..2, j \in 1..Len(snoozed_items) :
           /\ log[n].kind = "reminder"
           /\ log[n].ms < now
           /\ alerts[1].item_id = log[n].src
           /\ snoozed_items[j].id = log[3].src
           /\ snoozed_items[j].original_id # log[n].src
           /\ alerts[2].item_id = snoozed_items[j].original_id

\* C20: when a snooze button is clicked on the alert that a tick has shown for
\* the snoozed item S (the open alert that carries S's original_id, the alert of
\* the reminder itself having been closed by the snooze that made S), the new
\* snoozed item has original_id = S.id.
C20_ResnoozeChainsToItem ==
    [][\A k \in AlertKeys, m \in SnoozeMinutes :
        snooze_action(k, m) =>
            \A j \in 1..Len(snoozed_items) :
                LET S == snoozed_items[j]
                IN  ( /\ Dispatches(log, "snoozed", S.id) = 1
                      /\ alerts[k] = AlertWindow(S.title, S.message, S.original_id,
                                                 S.custom_voice) )
                    => snoozed_items'[Len(snoozed_items')].original_id = S.id]_vars

\* the snoozed item's reminder is not in the list
Orphan(item) == \A i \in 1..Len(reminders) : reminders[i].id # item.original_id

\* C21: Delete leaves the snoozed list as it is, the items snoozed from the
\* deleted reminder's alert with it; and a tick in the trigger minute of an active
\* snoozed item whose reminder has been deleted shows its alert and leaves it
\* inactive.
C21_DeleteKeepsSnoozed ==
    /\ [][\A sel \in 1..MaxReminders :
            delete_reminder(sel) => snoozed_items' = snoozed_items]_vars
    /\ [][monitor_loop =>
            \A j \in 1..Len(snoozed_items) :
                LET item == snoozed_items[j]
                IN  ( /\ Orphan(item)
                      /\ item.active
                      /\ item.trigger_time = StrfDateTime(now) )
                    => /\ ShownInStep("snoozed", item.id)
                       /\ ~snoozed_items'[j].active]_vars

\* the only reminder was delivered, its alert snoozed, and the reminder deleted
\* from the line the listbox still showed; the tick that has just run, in the
\* item's trigger minute, showed the alert of the snoozed item
C21_Witness ==
    /\ JustTicked
    /\ reminders = << >>
    /\ file.reminders = << >>
    /\ Len(snoozed_items) = 1
    /\ ~snoozed_items[1].active
    /\ Len(log) = 2
    /\ log[1].kind = "reminder"
    /\ log[1].src = snoozed_items[1].original_id
    /\ log[2] = Shown("snoozed", snoozed_items[1].id, now)
    /\ log[2].at = snoozed_items[1].trigger_time
    /\ Len(alerts) = 1
    /\ alerts[1].item_id = log[1].src

\* the program has been started again
Restarted == \E n \in 1..Len(log) : log[n].kind = "start"

\* C22: the data file holds the reminders (and the alarms) and nothing of the
\* snoozed list; a start of the program leaves the snoozed list empty; and a
\* reminder whose alert was shown is inactive in the store, before and after a
\* restart, and its alert is shown once in all; the alert of a snoozed item is
\* shown only in the session in which the item was snoozed.
C22_SnoozedNotPersisted ==
    /\ [](DOMAIN file = {"exists", "json", "reminders", "alarms"})
    /\ [][\A d \in ClickDelays : Restart(d) => snoozed_items' = << >>]_vars
    /\ [](\A i \in 1..Len(reminders) :
            /\ Dispatches(log, "reminder", reminders[i].id) <= 1
            /\ Dispatches(log, "reminder", reminders[i].id) = 1 => ~reminders[i].active)
    /\ [](\A m, n \in 1..Len(log) :
            (m < n /\ log[m].kind = "start" /\ log[n].kind = "snoozed")
                => log[n].src >= log[m].ms)

\* a reminder was delivered and its alert snoozed; the program was quit and
\* started again within the reminder's minute, and the new monitor thread has
\* ticked: no snoozed item, the reminder inactive, one alert in all
C22_Witness ==
    /\ Restarted
    /\ JustTicked
    /\ snoozed_items = << >>
    /\ alerts = << >>
    /\ \E i \in 1..Len(reminders) :
           /\ ~reminders[i].active
           /\ << reminders[i].date, reminders[i].time >> = StrfDateTime(now)
           /\ Dispatches(log, "reminder", reminders[i].id) = 1
           /\ \E n \in 1..Len(log) : log[n].kind = "start" /\ n = Len(log)

\* C23: once quit_app has set running to FALSE, no tick runs; the monitor
\* thread ends at its while condition only, after its sleep is over and with
\* running FALSE; and, the clock moving on, it does end (in the model: if the
\* end of its sleep lies within the time explored).
C23_MonitorExitsAfterQuit ==
    /\ [][monitor_loop => running]_vars
    /\ [][(monitor = "alive" /\ monitor' # "alive")
            => (~running /\ sleepLeft = 0 /\ monitor' = "exited"
                /\ UNCHANGED << reminders, snoozed_items, file, alerts, log >>)]_vars
    /\ (~running /\ monitor = "alive" /\ now + sleepLeft + SleepMs <= Horizon)
           ~> (monitor = "exited")

\* the program was quit during the monitor's sleep; the sleep over, in the
\* minute of a reminder that is active and due, the thread has ended without
\* showing the alert
C23_Witness ==
    /\ ~running
    /\ monitor = "exited"
    /\ ~Restarted
    /\ log = << >>
    /\ \E i \in 1..Len(reminders) :
           /\ reminders[i].active
           /\ << reminders[i].date, reminders[i].time >> = StrfDateTime(now)

\* C24: every reminder of the store has a title that is not the empty string.
C24_TitlesNonEmpty ==
    \A i \in 1..Len(reminders) : reminders[i].title # << >>

C26_SnoozedItemsOnlyDeactivate ==
    [][/\ Len(snoozed_items') >= Len(snoozed_items)
       /\ \A j \in 1..Len(snoozed_items) :
              \/ snoozed_items'[j] = snoozed_items[j]
              \/ /\ monitor_loop
                 /\ snoozed_items[j].active
                 /\ snoozed_items[j].trigger_time = StrfDateTime(now)
                 /\ snoozed_items'[j] = [snoozed_items[j] EXCEPT !.active = FALSE]
       /\ Len(snoozed_items') > Len(snoozed_items)
              => \E k \in AlertKeys, m \in SnoozeMinutes : snooze_action(k, m)]_vars

\* the first snoozed item has fired and is in the list, inactive, with the
\* trigger time it was made with; the alert it showed was snoozed again
C26_Witness ==
    /\ Len(snoozed_items) = 2
    /\ ~snoozed_items[1].active
    /\ snoozed_items[2].active
    /\ snoozed_items[1].trigger_time = StrfDateTime(snoozed_items[1].id + 5 * MsPerMinute)
    /\ Dispatches(log, "snoozed", snoozed_items[1].id) = 1
    /\ snoozed_items[2].id > snoozed_items[1].id + 4 * MsPerMinute
    /\ msgbox = "Snoozed"

\* C27: when a snooze button is clicked on an alert, the reminder whose id the
\* alert carries (if it is in the store) has active = FALSE.
C27_SnoozedReminderInactive ==
    [][\A k \in AlertKeys, m \in SnoozeMinutes :
        snooze_action(k, m) =>
            \A i \in 1..Len(reminders) :
                reminders[i].id = alerts[k].item_id => ~reminders[i].active]_vars

\* the ids of the reminders whose alerts the tick under way has dispatched
DispatchedInTick ==
    { log[e].src : e \in { n \in 1..Len(log) :
                             log[n].kind = "reminder" /\ log[n].ms = tick.t } }

\* C28: within one tick the reminders are examined one by one in list order,
\* from the first on, and check_snoozed is entered only when the loop over the
\* reminders is over; a reminder is deactivated only after its alert has been
\* dispatched in this tick; and whenever the loop is about to examine a
\* reminder (or to end), every reminder dispatched earlier in this tick that
\* the data file holds is inactive there.
C28_TickOrder ==
    /\ [][(tick'.at = "reminders" /\ tick.at # "reminders")
            => (tick.at = "sleep" /\ tick'.i = 1 /\ tick'.stage = "if")]_vars
    /\ [][(tick'.at = "reminders" /\ tick.at = "reminders")
            => (tick'.i = tick.i \/ (tick'.i = tick.i + 1 /\ tick'.stage = "if"))]_vars
    /\ [][(tick'.at = "snoozed" /\ tick.at # "snoozed")
            => (tick.at = "reminders" /\ tick.stage = "if" /\ tick.i > Len(Iterated))]_vars
    /\ [][\A n \in 1..Len(reminders), m \in 1..Len(reminders') :
            (reminders[n].id = reminders'[m].id
                /\ reminders[n].active /\ ~reminders'[m].active)
            => reminders[n].id \in DispatchedInTick]_vars
    /\ [](tick.at = "reminders" /\ tick.stage = "if"
            => \A j \in 1..Len(file.reminders) :
                   file.reminders[j].id.v \in DispatchedInTick
                       => file.reminders[j].active.t = "false")

\* a tick has gone through a store of two reminders, both due: their alerts
\* were dispatched in list order, both are inactive in the data file, and the
\* thread is in check_snoozed
C28_Witness ==
    /\ tick.at = "snoozed"
    /\ Len(reminders) = 2
    /\ reminders[1].id # reminders[2].id
    /\ Len(log) = 2
    /\ log[1].kind = "reminder" /\ log[1].src = reminders[1].id
    /\ log[2].kind = "reminder" /\ log[2].src = reminders[2].id
    /\ log[1].ms = log[2].ms
    /\ Len(file.reminders) = 2
    /\ \A j \in 1..2 : file.reminders[j].active.t = "false"

\* the (date, time) pair the edit under way leaves in the reminder
SavedSchedule ==
    << saving.form.date,
       get_24hour_time(saving.form.hma[1], saving.form.hma[2], saving.form.hma[3]) >>

\* C29: when the monitor thread finds the reminder of the edit dialog due while
\* save has assigned its date and not yet its time, the (date, time) pair of
\* the tick is the reminder's schedule before the edit or its schedule after
\* the edit.
C29_NoTornDispatch ==
    [][(check_reminders_if /\ tick'.stage = "show" /\ saving.busy
            /\ Iterated[tick.i].id = reminders[dialog.idx].id)
          => StrfDateTime(tick.t) \in { saving.was, SavedSchedule }]_vars

\* C30: the monitor thread dispatches an alert only for a reminder that is
\* in the store, so a reminder that delete_reminder has removed is not
\* dispatched afterwards, whether or not a tick was iterating at that moment.
C30_DeletedNeverDispatched ==
    [][check_reminders_show => InStore(Iterated[tick.i].id)]_vars

\* the minute a form schedules
FormMinute(f) == StampMinute(f.date, get_24hour_time(f.hma[1], f.hma[2], f.hma[3]))

\* C31: an edit saved with a (date, time) at a minute later than the current
\* one leaves the reminder active, so that the tick of that minute dispatches
\* it, whether or not a tick delivered the reminder while the dialog was open
\* or the listbox was stale.
C31_SavedEditIsScheduled ==
    [][\A f \in Forms :
          (edit_save(f) /\ FormMinute(f) > MinuteOf(now))
              => reminders'[dialog.idx].active]_vars

\* C34: Cancel closes the edit dialog on a reminder that is as it was when the
\* dialog opened: if it had a voice note then, it still has it in memory (a
\* voice note marked for removal goes with Save Changes only).
C34_CancelKeepsVoiceNote ==
    [][(edit_cancel /\ dialog.removable)
          => Truthy(Get(reminders'[dialog.idx], "voice_note", None))]_vars

\* the minutes since midnight of hour (1..12), minute and AM/PM: 12 AM is
\* hour 0, 12 PM is hour 12
ClockMinutes(hma) ==
    ((hma[1] % 12) + (IF hma[3] = "PM" THEN 12 ELSE 0)) * MinutesPerHour + hma[2]

\* "HH:MM" with HH in 00..23 and MM in 00..59
ValidTime(s) ==
    /\ Len(s) = 5
    /\ s[3] = ":"
    /\ \A n \in {1, 2, 4, 5} : \E d \in 1..10 : Digits[d] = s[n]
    /\ 10 * DigitValue(s[1]) + DigitValue(s[2]) < HoursPerDay
    /\ 10 * DigitValue(s[4]) + DigitValue(s[5]) < MinutesPerHour

\* C36: the hour (1..12), minute and AM/PM the edit dialog opens with for a
\* stored HH:MM give the same HH:MM back through get_24hour_time; the time a
\* save stores for the hour, minute and AM/PM of the form is a valid 24-hour
\* time of the same minute of the day (12 AM is 00, 12 PM is 12); and a save
\* of the time the dialog opened with leaves the reminder's time as it was.
C36_TimeRoundTrip ==
    /\ [][\A sel \in 1..MaxReminders :
            (edit_reminder(sel) /\ dialog'.open)
              => LET t == reminders[dialog'.idx].time
                     p == TimeParts(t)
                 IN  /\ p[1] \in 1..12
                     /\ p[2] \in 0..(MinutesPerHour - 1)
                     /\ p[3] \in {"AM", "PM"}
                     /\ get_24hour_time(p[1], p[2], p[3]) = t]_vars
    /\ [][save_end
            => LET t == reminders'[dialog.idx].time
               IN  /\ ValidTime(t)
                   /\ ParseTime(t) = ClockMinutes(saving.form.hma)
                   /\ saving.form.hma = TimeParts(saving.was[2]) => t = saving.was[2]]_vars

\* the dialog opened on a reminder stored with 12:07 (12:07 PM) and was saved
\* as it was: the reminder is still at 12:07
C36_Witness ==
    /\ msgbox = "Reminder updated!"
    /\ Len(reminders) = 1
    /\ reminders[1].time = << "1", "2", ":", "0", "7" >>
    /\ reminders[1].title = << "a" >>
    /\ reminders[1].date = 1

\* the text is empty or all spaces
Blank(s) == \A n \in 1..Len(s) : s[n] = " "

\* C37: the Add button pressed on a form whose title is empty or all spaces
\* shows the error box and leaves the store, the data file and the snoozed
\* items as they are: no reminder is appended, nothing is written.
C37_BlankTitleRejected ==
    [][\A f \in AddForms :
          ((AddRejected(f) \/ add_reminder_gui(f)) /\ Blank(f.title))
              => /\ UNCHANGED << reminders, file, snoozed_items >>
                 /\ msgbox' = "Enter a title!"]_vars

\* the Add button was pressed on a blank title with a reminder in the store:
\* the error box is up, the store and the file hold that reminder only
C37_Witness ==
    /\ msgbox = "Enter a title!"
    /\ Len(reminders) = 1
    /\ file = save_data(reminders)
    /\ ~Blank(reminders[1].title)

\* show_fullscreen_alert raises for the i-th reminder
AlertFault(i) == [kind |-> "alert", list |-> "reminders", at |-> i]

\* C32: a tick in which the dispatch of the due i-th reminder raises leaves
\* that reminder as it was, active, shows no alert for it and writes no file in
\* which it is inactive; a reminder's active flag falls only in a step that
\* has shown its alert; and a tick in which nothing raises dispatches and
\* deactivates every reminder that is active and due at its clock reading, so
\* a later tick of the same minute dispatches the reminder left active.
C32_RaisedDispatchRetried ==
    /\ [][\A i \in 1..MaxReminders :
            Iteration(AlertFault(i))
              => /\ reminders'[i] = reminders[i]
                 /\ reminders'[i].active
                 /\ ~ShownInStep("reminder", reminders[i].id)
                 /\ file' = file \/ file'.reminders[i].active.t = "true"
                 /\ ReminderDue(reminders'[i], now + SleepMs)
                      = (MinuteOf(now + SleepMs) = MinuteOf(now))]_vars
    /\ [][\A i \in 1..Len(reminders) :
            (Len(reminders') = Len(reminders) /\ reminders'[i].id = reminders[i].id
                /\ reminders[i].active /\ ~reminders'[i].active)
              => ShownInStep("reminder", reminders[i].id)]_vars
    /\ [][monitor_loop
            => \A i \in 1..Len(reminders) :
                   ReminderDue(reminders[i], now)
                     => (ShownInStep("reminder", reminders[i].id)
                           /\ ~reminders'[i].active)]_vars

\* the dispatch of the only reminder, due in this minute, has just raised: the
\* thread sleeps, the reminder is active in the store and in the file, and no
\* alert has been shown for it
C32_Witness ==
    /\ JustTicked
    /\ Len(reminders) = 1
    /\ reminders[1].active
    /\ << reminders[1].date, reminders[1].time >> = StrfDateTime(now)
    /\ Dispatches(log, "reminder", reminders[1].id) = 0
    /\ file.reminders[1].active.t = "true"

\* save_data raises after the i-th reminder was deactivated
SaveFault(i) == [kind |-> "save", list |-> "reminders", at |-> i]

\* C38: the tick in which save_data raises for the delivered i-th reminder
\* has shown its alert and leaves it inactive in memory; and, as long as the
\* program is not started again, no step shows an alert for a reminder that
\* is inactive in memory or makes it active again.
C38_MemoryIsAuthoritative ==
    /\ [][\A i \in 1..MaxReminders :
            Iteration(SaveFault(i))
              => /\ ShownInStep("reminder", reminders[i].id)
                 /\ ~reminders'[i].active]_vars
    /\ [][\A i \in 1..Len(reminders) :
            (~reminders[i].active /\ ~(\E d \in ClickDelays : Restart(d)))
              => /\ ~ShownInStep("reminder", reminders[i].id)
                 /\ \A j \in 1..Len(reminders') :
                        reminders'[j].id = reminders[i].id => ~reminders'[j].active]_vars

\* save_data raised for the only reminder in the first tick of its minute (the
\* file still says active); the second tick of the minute has run in the same
\* session, and the alert was shown once
C38_Witness ==
    /\ JustTicked
    /\ ~Restarted
    /\ Len(reminders) = 1
    /\ ~reminders[1].active
    /\ << reminders[1].date, reminders[1].time >> = StrfDateTime(now)
    /\ file.reminders[1].active.t = "true"
    /\ Len(log) = 1
    /\ log[1].kind = "reminder" /\ log[1].src = reminders[1].id
    /\ now >= log[1].ms + SleepMs

\* the i-th reminder is active and scheduled for a minute after the current
\* one, within the time explored
Upcoming(i) ==
    /\ i \in 1..Len(reminders)
    /\ reminders[i].active
    /\ StampMinute(reminders[i].date, reminders[i].time) > MinuteOf(now)
    /\ StampMinute(reminders[i].date, reminders[i].time) <= MinuteOf(Horizon)

\* the alert of the i-th reminder has been shown by a tick of the minute the
\* reminder is scheduled for
DispatchedAtItsMinute(i) ==
    /\ i \in 1..Len(reminders)
    /\ \E n \in 1..Len(log) :
           /\ log[n].kind = "reminder"
           /\ log[n].src = reminders[i].id
           /\ log[n].at = << reminders[i].date, reminders[i].time >>
           /\ MinuteOf(log[n].ms) = StampMinute(reminders[i].date, reminders[i].time)

\* C33: in a process that keeps running and whose ticks start on time (30
\* seconds apart), every active reminder scheduled for a minute later than the
\* current one is eventually dispatched, by a tick of its own minute.
C33_UpcomingEventuallyDispatched ==
    \A i \in 1..MaxReminders : Upcoming(i) ~> DispatchedAtItsMinute(i)

\* two reminders scheduled for different minutes, both ahead when they were
\* added, have each been dispatched in their minute
C33_Witness ==
    /\ Len(reminders) = 2
    /\ reminders[1].time # reminders[2].time
    /\ DispatchedAtItsMinute(1)
    /\ DispatchedAtItsMinute(2)
    /\ Len(log) = 2

\* C35: when the file object of the tick's save_data is closed, whatever the
\* UI thread's handlers have written since it was opened, the data file holds
\* the complete serialization of the store as it is then.
C35_OverlappingWritesLeaveStore ==
    [][check_reminders_save_close => file' = save_data(reminders')]_vars

====
